---- MODULE Spec2Model ----
(***************************************************************************)
(* banner: a terminal heatmap of fractal Perlin noise with a FIGlet text   *)
(* silhouette (src/src/main.rs).  The model follows main() stage by stage: *)
(* argument parsing and seeding, noise generation, normalisation, the      *)
(* heatmap/fade pass, font load, text conversion and the overlay loop that *)
(* writes the escape-coded cells to standard output.                       *)
(*                                                                         *)
(* Numbers.  f64 values are exact rationals <<n, d>> with d > 0; the pair  *)
(* <<0, 0>> is NaN (the only non-finite value main() can produce: 0.0/0.0  *)
(* and arithmetic on it).  Colour components of the gradient stops are in  *)
(* thousandths, luminance in thousandths, the fade range and its draws in  *)
(* tenths.                                                                 *)
(***************************************************************************)
EXTENDS Integers, Sequences, FiniteSets, TLC

\* ---------------------------------------------------------------- bounds
MaxRows == 2
MaxCols == 2
MaxOctaves == 2
MaxHeight == 4

\* ------------------------------------------------------ program constants
DefaultLacunarity == 2      \* frequency doubles per octave
DefaultPersistenceInv == 2  \* amplitude halves per octave (persistence 0.5)
TrailingLines == 2          \* raster lines dropped at the bottom
LumThreshold == 128000      \* 128.0, in thousandths
DarkenTenths == 4           \* 0.4
RngMod == 16                \* size of the modelled generator state

NaN == <<0, 0>>
IsNaN(v) == v[2] = 0

None == <<>>
Some(x) == <<x>>

Scales == {1, 2}
FadeRanges == {-1, 0, 5}
Seeds == {None, Some(3)}
Entropy == {1, 2}
Texts == {<<>>, <<"a">>, <<"b", "a">>, <<"?">>}

VARIABLES
    args,          \* the parsed command line (struct Args); textGiven: --text present
    cols,          \* terminal width
    font,          \* the embedded font.flf: [ok, height]
    pc,            \* position in main()
    rng,           \* StdRng state
    perlin,        \* seed of the Perlin instance
    data,          \* noise grid, then normalised in place
    heatmap,       \* grid of (val, ch)
    fade,          \* fade_factor of each cell (numerator over 10 * cols)
    figlet_lines,  \* the glyph raster, one sequence of characters per line
    i, j,          \* overlay loop counters
    out,           \* what standard output has accepted
    run,           \* 1: first invocation, 2: second invocation, same parameters
    prevOut        \* output of the completed first invocation

vars == <<args, cols, font, pc, rng, perlin, data, heatmap, fade,
          figlet_lines, i, j, out, run, prevOut>>

\* ------------------------------------------------------------- arithmetic
RECURSIVE Pow(_, _)
Pow(b, k) == IF k = 0 THEN 1 ELSE b * Pow(b, k - 1)

Min(S) == CHOOSE x \in S : \A y \in S : x <= y
Max(S) == CHOOSE x \in S : \A y \in S : x >= y

Clamp(x, lo, hi) == IF x < lo THEN lo ELSE IF x > hi THEN hi ELSE x

\* the index sets of vec![vec![..; cols]; rows]
RowIdx(rows) == 0..(rows - 1)
ColIdx(n) == 0..(n - 1)

\* ------------------------------------------------------------------ noise
\* Perlin::new() takes the crate's default seed; random() is not used for it.
PerlinSeedFromEntropy(e) == e
PerlinSeed(e) == 0

\* perlin.get([x, y]) at x = xn / den, y = yn / den.  Gradient noise is 0 at
\* every lattice point; elsewhere it is a fixed function of the point and the
\* seed, here a hash onto -2..2.
Perlin(seed, xn, yn, den) ==
    IF xn % den = 0 /\ yn % den = 0 THEN 0
    ELSE ((3 * xn + 5 * yn + 7 * seed) % 5) - 2

\* The octave loop: val += perlin.get(..) * amplitude; max_value += amplitude.
\* Amplitudes are scaled by PersistenceInv^(octaves-1) to stay integral, which
\* leaves val / max_value unchanged.
RECURSIVE OctaveVal(_, _, _, _, _, _)
OctaveVal(seed, r, c, scale, octaves, k) ==
    IF k >= octaves THEN 0
    ELSE Perlin(seed, r * Pow(DefaultLacunarity, k), c * Pow(DefaultLacunarity, k), scale)
             * Pow(DefaultPersistenceInv, octaves - 1 - k)
         + OctaveVal(seed, r, c, scale, octaves, k + 1)

RECURSIVE OctaveMax(_, _)
OctaveMax(octaves, k) ==
    IF k >= octaves THEN 0
    ELSE Pow(DefaultPersistenceInv, octaves - 1 - k) + OctaveMax(octaves, k + 1)

\* data[i][j] = val / max_value; with octaves = 0 this is 0.0 / 0.0.
FractalSample(seed, r, c, scale, octaves) ==
    LET val == OctaveVal(seed, r, c, scale, octaves, 0)
        max_value == OctaveMax(octaves, 0)
    IN  IF max_value = 0 THEN NaN ELSE <<val, max_value>>

\* ---------------------------------------------------------- normalisation
\* fold(INFINITY, f64::min) and fold(NEG_INFINITY, f64::max) skip NaN; every
\* finite sample of one grid has the same denominator.
FiniteNums(g) ==
    UNION {{g[r][c][1] : c \in {x \in DOMAIN g[r] : ~IsNaN(g[r][x])}} : r \in DOMAIN g}

\* (*val - min_val) / (max_val - min_val)
NormalizeVal(v, lo, hi) ==
    IF IsNaN(v) \/ hi = lo THEN NaN ELSE <<v[1] - lo, hi - lo>>

Normalized(g) ==
    LET F == FiniteNums(g)
    IN  [r \in DOMAIN g |-> [c \in DOMAIN g[r] |->
            IF F = {} THEN NaN ELSE NormalizeVal(g[r][c], Min(F), Max(F))]]

\* --------------------------------------------------------------- the RNG
SeedFromU64(s) == s % RngMod
NextRng(s) == (5 * s + 3) % RngMod

\* args.random.unwrap_or(random())
SeedOf(random, e) == IF random = None THEN e ELSE random[1]

RECURSIVE RngAfter(_, _)
RngAfter(s, k) == IF k = 0 THEN s ELSE NextRng(RngAfter(s, k - 1))

\* rng.gen_range(-range..=range), in tenths
GenRange(s, range) == (s % (2 * range + 1)) - range

\* fade_factor, as a numerator over 10 * cols, clamped to [0, 1]
FadeFactor(c, n, draw) == Clamp(10 * n - c * (10 + draw), 0, 10 * n)

\* --------------------------------------------------------------- gradient
\* The four stops of Gradient::new, linear RGB in thousandths, evenly spaced.
Stops == << <<157, 165, 212>>, <<0, 500, 700>>, <<545, 914, 992>>, <<700, 850, 900>> >>

\* (channel * 255.0) as u8: truncation
ToU8(num, den) == (255 * num) \div den

\* gradient.get(val) followed by the conversion to 8-bit channels.  At or
\* below the first stop and at or above the last the stop itself is returned;
\* in between the two neighbouring stops are mixed linearly.  NaN fails every
\* comparison, is mixed into NaN channels, and NaN as u8 is 0.
Gradient(v) ==
    IF IsNaN(v) THEN <<0, 0, 0>>
    ELSE LET n == v[1]
             d == v[2]
             last == Len(Stops)
             segs == last - 1
         IN  IF n <= 0 THEN [c \in 1..3 |-> ToU8(Stops[1][c], 1000)]
             ELSE IF n >= d THEN [c \in 1..3 |-> ToU8(Stops[last][c], 1000)]
             ELSE LET k == Min({s \in 1..segs : segs * n <= s * d})
                      a == Stops[k]
                      b == Stops[k + 1]
                      t == segs * n - (k - 1) * d     \* factor = t / d
                  IN  [c \in 1..3 |-> ToU8(a[c] * d + (b[c] - a[c]) * t, 1000 * d)]

\* 0.299 * r + 0.587 * g + 0.114 * b, in thousandths
Luminance(rgb) == 299 * rgb[1] + 587 * rgb[2] + 114 * rgb[3]

Black == <<0, 0, 0>>
White == <<255, 255, 255>>

\* if luminance > 128.0 { black } else { white }
TextColorInverted(rgb) == IF Luminance(rgb) > LumThreshold THEN White ELSE Black
TextColor(rgb) == IF Luminance(rgb) > LumThreshold THEN Black ELSE White

\* (0.4 * r as f32).round() as u8; no product is a tie
DarkenChannelTrunc(x) == (DarkenTenths * x) \div 10
DarkenChannel(x) == (DarkenTenths * x + 5) \div 10
Darken(rgb) == [c \in 1..3 |-> DarkenChannel(rgb[c])]

\* ------------------------------------------------------------------- font
\* font.flf: the characters it has, and line r of each character's glyph.
FontChars == {"a", "b"}
GlyphRow(ch, r) ==
    IF ch = "a" THEN (IF r % 2 = 0 THEN <<"█">> ELSE <<" ">>)
    ELSE <<" ", "#">>

\* FIGfont::convert keeps the characters the font has; None when none is left.
RECURSIVE Supported(_)
Supported(text) ==
    IF text = <<>> THEN <<>>
    ELSE IF Head(text) \in FontChars THEN <<Head(text)>> \o Supported(Tail(text))
    ELSE Supported(Tail(text))

\* FIGure::to_string, then lines(): line r is the glyphs' lines r side by side.
RECURSIVE RasterLine(_, _)
RasterLine(chars, r) ==
    IF chars = <<>> THEN <<>> ELSE GlyphRow(Head(chars), r) \o RasterLine(Tail(chars), r)

Raster(text, height) == [r \in 1..height |-> RasterLine(Supported(text), r - 1)]

\* str::len(): bytes of the UTF-8 encoding
ByteLen(ch) == IF ch = "█" THEN 3 ELSE 1
RECURSIVE StrLen(_)
StrLen(line) == IF line = <<>> THEN 0 ELSE ByteLen(Head(line)) + StrLen(Tail(line))

\* if j < line.len() { line.chars().nth(j).unwrap_or(' ') } else { ' ' }
CharAt(line, c) ==
    IF c < StrLen(line) THEN (IF c + 1 <= Len(line) THEN line[c + 1] ELSE " ") ELSE " "

\* ------------------------------------------------------------ the overlay
\* if i >= figlet_height - 2 { continue; }   (the font has at least the two
\* trailing lines, so the usize subtraction does not wrap)
SkippedOffByOne(r, height) == r >= height - (TrailingLines - 1)
Skipped(r, height) == r >= height - TrailingLines

\* if i < args.rows
InFieldAlways(r, rows) == TRUE
InField(r, rows) == r < rows

\* writeln!(stdout) closes the line whether or not the line is in the field
NewlineOnlyInField(r, rows) == r < rows
NewlineWritten(r, rows) == TRUE

\* heatmap[i][j] = (val, ch); the faded value is not used (val * fade_factor
\* is commented out)
HeatVal(val, fnum, fden) == val

\* "\x1b[48;2;{};{};{}m\x1b[38;2;{};{};{}m{}\x1b[0m"
CellBytesFgFirst(bg, fg, ch) ==
    << <<"fg", fg>>, <<"bg", bg>>, <<"ch", <<ch>>>>, <<"reset", <<>>>> >>
CellBytes(bg, fg, ch) ==
    << <<"bg", bg>>, <<"fg", fg>>, <<"ch", <<ch>>>>, <<"reset", <<>>>> >>

NL == <<"nl", <<>>>>

\* One cell of the overlay: the gradient colour of the heatmap value, the
\* text colour from its luminance, the darkening under a glyph stroke, and a
\* space as the character in either case.
RenderCell(val, glyph) ==
    LET color == Gradient(val)
        text == TextColor(color)
        bg == IF glyph # " " THEN Darken(color) ELSE color
        ch == IF glyph = " " THEN " " ELSE " "
    IN  CellBytes(bg, text, ch)

\* ------------------------------------------------------------------ state
\* A font that fails to parse, or a font of some height; the raster of a
\* font ends in the two lines the overlay drops, so heights start there.
Fonts == {[ok |-> FALSE, height |-> 0]}
            \cup {[ok |-> TRUE, height |-> h] : h \in TrailingLines..MaxHeight}

Init ==
    /\ args \in [rows : 0..MaxRows, scale : Scales, octaves : 0..MaxOctaves,
                 fade_factor_range : FadeRanges, random : Seeds,
                 text : {None} \cup {Some(t) : t \in Texts}]
    /\ cols \in 0..MaxCols
    /\ font \in Fonts
    /\ pc = "start"
    /\ rng = 0
    /\ perlin = 0
    /\ data = <<>>
    /\ heatmap = <<>>
    /\ fade = <<>>
    /\ figlet_lines = <<>>
    /\ i = 0
    /\ j = 0
    /\ out = <<>>
    /\ run = 1
    /\ prevOut = <<>>

Failures == {"exit_usage", "panic_range", "panic_font", "panic_text",
             "panic_index", "panic_write"}
Failed == pc \in Failures

\* Args::parse(), terminal_size(), StdRng::seed_from_u64, Perlin::new()
ParseArgs ==
    /\ pc = "start"
    /\ IF args.text = None
       THEN /\ pc' = "exit_usage"
            /\ UNCHANGED <<rng, perlin>>
       ELSE \E e \in Entropy :
            /\ rng' = SeedFromU64(SeedOf(args.random, e))
            /\ perlin' = PerlinSeed(e)
            /\ pc' = "noise"
    /\ UNCHANGED <<args, cols, font, data, heatmap, fade, figlet_lines, i, j,
                   out, run, prevOut>>

\* the three nested loops that fill data
GenerateNoise ==
    /\ pc = "noise"
    /\ data' = [r \in RowIdx(args.rows) |-> [c \in ColIdx(cols) |->
                    FractalSample(perlin, r, c, args.scale, args.octaves)]]
    /\ pc' = "normalize"
    /\ UNCHANGED <<args, cols, font, rng, perlin, heatmap, fade, figlet_lines,
                   i, j, out, run, prevOut>>

\* min_val, max_val and the in-place rescaling
Normalize ==
    /\ pc = "normalize"
    /\ data' = Normalized(data)
    /\ pc' = "heatmap"
    /\ UNCHANGED <<args, cols, font, rng, perlin, heatmap, fade, figlet_lines,
                   i, j, out, run, prevOut>>

\* The heatmap pass: one draw per cell in row-major order.  gen_range panics
\* on an empty range (a negative fade_factor_range) at the first cell.
BuildHeatmap ==
    /\ pc = "heatmap"
    /\ IF args.rows > 0 /\ cols > 0 /\ args.fade_factor_range < 0
       THEN /\ pc' = "panic_range"
            /\ UNCHANGED <<rng, heatmap, fade>>
       ELSE /\ fade' = [r \in RowIdx(args.rows) |-> [c \in ColIdx(cols) |->
                    FadeFactor(c, cols,
                        GenRange(RngAfter(rng, r * cols + c + 1), args.fade_factor_range))]]
            /\ heatmap' = [r \in RowIdx(args.rows) |-> [c \in ColIdx(cols) |->
                    [val |-> HeatVal(data[r][c], fade'[r][c], 10 * cols), ch |-> "█"]]]
            /\ rng' = RngAfter(rng, args.rows * cols)
            /\ pc' = "font"
    /\ UNCHANGED <<args, cols, font, perlin, data, figlet_lines, i, j, out,
                   run, prevOut>>

\* FIGfont::from_content(include_str!("../font.flf")).unwrap()
LoadFont ==
    /\ pc = "font"
    /\ pc' = IF font.ok THEN "convert" ELSE "panic_font"
    /\ UNCHANGED <<args, cols, font, rng, perlin, data, heatmap, fade,
                   figlet_lines, i, j, out, run, prevOut>>

\* standard_font.convert(&args.text).unwrap(), to_string(), lines()
ConvertText ==
    /\ pc = "convert"
    /\ IF Supported(args.text[1]) = <<>>
       THEN /\ pc' = "panic_text"
            /\ UNCHANGED figlet_lines
       ELSE /\ figlet_lines' = Raster(args.text[1], font.height)
            /\ pc' = "overlay"
    /\ i' = 0
    /\ j' = 0
    /\ UNCHANGED <<args, cols, font, rng, perlin, data, heatmap, fade, out,
                   run, prevOut>>

figlet_height == Len(figlet_lines)

\* if i >= figlet_height - 2 { continue; }
SkipLine ==
    /\ pc = "overlay"
    /\ i < figlet_height
    /\ Skipped(i, figlet_height)
    /\ i' = i + 1
    /\ UNCHANGED <<args, cols, font, pc, rng, perlin, data, heatmap, fade,
                   figlet_lines, j, out, run, prevOut>>

\* the body of `for j in 0..cols` when i < args.rows: index the heatmap
\* (bounds-checked) and write the cell
EmitCell ==
    /\ pc = "overlay"
    /\ i < figlet_height
    /\ ~Skipped(i, figlet_height)
    /\ j < cols
    /\ InField(i, args.rows)
    /\ IF i \in DOMAIN heatmap /\ j \in DOMAIN heatmap[i]
       THEN /\ out' = out \o RenderCell(heatmap[i][j].val, CharAt(figlet_lines[i + 1], j))
            /\ j' = j + 1
            /\ pc' = pc
       ELSE /\ pc' = "panic_index"
            /\ UNCHANGED <<out, j>>
    /\ UNCHANGED <<args, cols, font, rng, perlin, data, heatmap, fade,
                   figlet_lines, i, run, prevOut>>

\* the body of `for j in 0..cols` when i >= args.rows: nothing
PassCell ==
    /\ pc = "overlay"
    /\ i < figlet_height
    /\ ~Skipped(i, figlet_height)
    /\ j < cols
    /\ ~InField(i, args.rows)
    /\ j' = j + 1
    /\ UNCHANGED <<args, cols, font, pc, rng, perlin, data, heatmap, fade,
                   figlet_lines, i, out, run, prevOut>>

\* writeln!(stdout).unwrap() after the inner loop
EndLine ==
    /\ pc = "overlay"
    /\ i < figlet_height
    /\ ~Skipped(i, figlet_height)
    /\ j = cols
    /\ out' = IF NewlineWritten(i, args.rows) THEN Append(out, NL) ELSE out
    /\ i' = i + 1
    /\ j' = 0
    /\ UNCHANGED <<args, cols, font, pc, rng, perlin, data, heatmap, fade,
                   figlet_lines, run, prevOut>>

\* write!(..).unwrap() / writeln!(..).unwrap() when standard output returns
\* an error (a closed pipe): the process panics with what was written so far
WriteFails ==
    /\ pc = "overlay"
    /\ i < figlet_height
    /\ ~Skipped(i, figlet_height)
    /\ \/ j < cols /\ InField(i, args.rows)
       \/ j = cols
    /\ pc' = "panic_write"
    /\ UNCHANGED <<args, cols, font, rng, perlin, data, heatmap, fade,
                   figlet_lines, i, j, out, run, prevOut>>

\* the outer loop is exhausted and main returns
Finish ==
    /\ pc = "overlay"
    /\ i = figlet_height
    /\ pc' = "done"
    /\ UNCHANGED <<args, cols, font, rng, perlin, data, heatmap, fade,
                   figlet_lines, i, j, out, run, prevOut>>

\* A second invocation with the same command line, terminal and font, after
\* the first has completed.
Reinvoke ==
    /\ pc = "done"
    /\ run = 1
    /\ run' = 2
    /\ prevOut' = out
    /\ pc' = "start"
    /\ rng' = 0
    /\ perlin' = 0
    /\ data' = <<>>
    /\ heatmap' = <<>>
    /\ fade' = <<>>
    /\ figlet_lines' = <<>>
    /\ i' = 0
    /\ j' = 0
    /\ out' = <<>>
    /\ UNCHANGED <<args, cols, font>>

Next ==
    \/ ParseArgs
    \/ GenerateNoise
    \/ Normalize
    \/ BuildHeatmap
    \/ LoadFont
    \/ ConvertText
    \/ SkipLine
    \/ EmitCell
    \/ PassCell
    \/ EndLine
    \/ WriteFails
    \/ Finish
    \/ Reinvoke

Spec == Init /\ [][Next]_vars

\* ---------------------------------------------- reading the output stream
Kind(k) == out[k][1]
NlCount == Cardinality({k \in 1..Len(out) : Kind(k) = "nl"})
\* the cells of the stream, each named by the place of its background code
CellStarts == {k \in 1..Len(out) : Kind(k) = "bg"}
\* the line a token is on, and the number of cells before it on that line
RowOf(k) == Cardinality({m \in 1..(k - 1) : Kind(m) = "nl"})
ColOf(k) == Cardinality({m \in 1..(k - 1) : Kind(m) = "bg" /\ RowOf(m) = RowOf(k)})
CellsInLine(l) == Cardinality({k \in CellStarts : RowOf(k) = l})
\* the raster character at (r, c); a space past the end of the raster line
GlyphAt(r, c) ==
    IF c + 1 <= Len(figlet_lines[r + 1]) THEN figlet_lines[r + 1][c + 1] ELSE " "
Overlaying == pc \in {"overlay", "done", "panic_write", "panic_index"}
\* parameters the specification calls valid
ValidParams ==
    /\ args.rows >= 1
    /\ cols >= 1
    /\ args.octaves >= 1
    /\ args.fade_factor_range >= 0
\* every line of the overlay is there, in-field lines with all their cells
CompleteOverlay ==
    /\ NlCount = font.height - 2
    /\ \A l \in 0..(font.height - 3) :
           CellsInLine(l) = IF l < args.rows THEN cols ELSE 0

\* C1: the overlay emits cells only at positions (i, j) with
\* i < min(H - 2, rows) and j < cols, so at most min(H - 2, rows) output rows
\* carry cells.
OverlayRowBound ==
    Overlaying =>
        LET bound == Min({font.height - 2, args.rows})
        IN  /\ \A k \in CellStarts : RowOf(k) < bound /\ ColOf(k) < cols
            /\ Cardinality({RowOf(k) : k \in CellStarts}) <= bound

\* a completed overlay of a field taller than the retained raster, whose
\* raster lines are wider than the field
OverlayRowBoundWitness ==
    /\ pc = "done"
    /\ font.height - 2 >= 1
    /\ args.rows > font.height - 2
    /\ cols >= 1
    /\ Len(figlet_lines[1]) > cols
    /\ CellsInLine(font.height - 3) = cols

\* C2 as claimed: after a complete run (of valid parameters) exactly `rows`
\* lines have been emitted.
OneLinePerGridRow == (ValidParams /\ pc = "done") => NlCount = args.rows

\* C2 as amended: after a complete run exactly H - 2 newline-terminated lines
\* have been emitted, whatever rows is; line l carries cols cells when
\* l < rows and is empty otherwise.
OneLinePerRasterLine ==
    pc = "done" =>
        /\ NlCount = font.height - 2
        /\ out # <<>> => out[Len(out)] = NL
        /\ \A l \in 0..(font.height - 3) :
               CellsInLine(l) = IF l < args.rows THEN cols ELSE 0

\* a complete run whose raster keeps more lines than the field has rows, so
\* that an empty line follows the field
OneLinePerRasterLineWitness ==
    /\ pc = "done"
    /\ args.rows >= 1
    /\ cols >= 1
    /\ font.height - 2 > args.rows
    /\ NlCount > args.rows

\* C3 as claimed: with octaves = 0 the run is rejected before computation and
\* nothing is emitted: it never gets to noise generation or beyond.
ZeroOctavesRejected ==
    args.octaves = 0 => pc \in {"start", "exit_usage"} /\ out = <<>>

\* C4 as claimed: no NaN is stored in the normalised grid or handed to the
\* gradient, for every finite noise grid, constant ones included.
NormalizedGridFinite ==
    (ValidParams /\ pc \notin {"start", "exit_usage", "noise", "normalize"}) =>
        /\ \A r \in DOMAIN data : \A c \in DOMAIN data[r] : ~IsNaN(data[r][c])
        /\ \A r \in DOMAIN heatmap : \A c \in DOMAIN heatmap[r] :
               ~IsNaN(heatmap[r][c].val)

\* C5 as claimed: a failed run (of valid parameters) has written nothing.
NoPartialFailure == (ValidParams /\ Failed) => out = <<>>

\* C5 as amended: usage errors, the fade-range panic, the font load and the
\* text conversion fail with nothing written; a failure after the first byte
\* of output is a failed write to standard output and nothing else; a run
\* that ends without failing has emitted the complete overlay.
OnlyWritesFailAfterOutput ==
    /\ pc \in {"exit_usage", "panic_range", "panic_font", "panic_text"} => out = <<>>
    /\ (Failed /\ out # <<>>) => pc = "panic_write"
    /\ pc = "done" => CompleteOverlay

\* a write that fails in the middle of a line, after a cell was written
OnlyWritesFailAfterOutputWitness ==
    /\ pc = "panic_write"
    /\ out # <<>>
    /\ out[Len(out)] # NL

\* C6 as claimed: the colour of cell (i, j) is the gradient at value * factor
\* (darkened under a glyph stroke), factor being the cell's fade factor.
FadeFeedsGradient ==
    ValidParams => \A k \in CellStarts :
        LET r == RowOf(k)
            c == ColOf(k)
            v == heatmap[r][c].val
            faded == <<v[1] * fade[r][c], v[2] * 10 * cols>>
            expected == IF GlyphAt(r, c) # " " THEN Darken(Gradient(faded))
                        ELSE Gradient(faded)
        IN  out[k][2] = expected

\* C7: a second invocation with the same parameters and the same explicit
\* seed writes the same stream as the first.
Determinism ==
    (run = 2 /\ pc = "done" /\ args.random # None) => out = prevOut

\* two completed invocations with an explicit seed whose output shows at
\* least two different colours
DeterminismWitness ==
    /\ run = 2
    /\ pc = "done"
    /\ args.random # None
    /\ Cardinality({out[k][2] : k \in CellStarts}) >= 2

\* C8: the foreground of every cell is black when the luminance of the 8-bit
\* gradient colour before darkening exceeds 128, and white otherwise
\* (128 itself gives white).
LuminanceThreshold ==
    \A k \in CellStarts :
        LET g == Gradient(heatmap[RowOf(k)][ColOf(k)].val)
            l == 299 * g[1] + 587 * g[2] + 114 * g[3]
        IN  /\ k + 1 <= Len(out)
            /\ out[k + 1] = <<"fg", IF l > 128000 THEN <<0, 0, 0>> ELSE <<255, 255, 255>>>>

\* a completed overlay with a white foreground, and a black foreground on a
\* darkened cell whose darkened background is itself below the threshold
LuminanceThresholdWitness ==
    /\ pc = "done"
    /\ \E k \in CellStarts : out[k + 1][2] = White
    /\ \E k \in CellStarts :
           /\ out[k + 1][2] = Black
           /\ GlyphAt(RowOf(k), ColOf(k)) # " "
           /\ Luminance(out[k][2]) <= LumThreshold

\* C9: under a non-space raster character the background is the gradient
\* colour times 0.4, each channel rounded to the nearest integer; under a
\* space, or past the end of the raster line, it is the gradient colour
\* itself; the character written is a space in both cases.
GlyphSilhouette ==
    \A k \in CellStarts :
        LET r == RowOf(k)
            c == ColOf(k)
            g == Gradient(heatmap[r][c].val)
            bg == out[k][2]
        IN  /\ GlyphAt(r, c) # " " =>
                   \A x \in 1..3 : 10 * bg[x] - 4 * g[x] \in -5..5
            /\ GlyphAt(r, c) = " " => bg = g
            /\ k + 2 <= Len(out)
            /\ out[k + 2] = <<"ch", <<" ">>>>

\* a completed overlay with a darkened cell, an undarkened cell under a
\* space of the raster and an undarkened cell past the end of its line
GlyphSilhouetteWitness ==
    /\ pc = "done"
    /\ \E k \in CellStarts :
           /\ GlyphAt(RowOf(k), ColOf(k)) # " "
           /\ out[k][2] # Gradient(heatmap[RowOf(k)][ColOf(k)].val)
    /\ \E k \in CellStarts :
           /\ ColOf(k) + 1 <= Len(figlet_lines[RowOf(k) + 1])
           /\ GlyphAt(RowOf(k), ColOf(k)) = " "
    /\ \E k \in CellStarts : ColOf(k) + 1 > Len(figlet_lines[RowOf(k) + 1])

\* C10: each cell is written as background code, foreground code, character,
\* reset, in that order; the n-th cell of line l is the cell of column n of
\* row l; a newline follows the last cell of each row.
EmissionOrder ==
    /\ \A k \in 1..Len(out) :
           /\ Kind(k) = "bg" =>
                  /\ k + 3 <= Len(out)
                  /\ Kind(k + 1) = "fg" /\ Kind(k + 2) = "ch" /\ Kind(k + 3) = "reset"
                  /\ k > 1 => Kind(k - 1) \in {"reset", "nl"}
           /\ Kind(k) = "fg" => k > 1 /\ Kind(k - 1) = "bg"
           /\ Kind(k) = "ch" => k > 1 /\ Kind(k - 1) = "fg"
           /\ Kind(k) = "reset" => k > 1 /\ Kind(k - 1) = "ch"
           /\ Kind(k) = "nl" =>
                  /\ CellsInLine(RowOf(k)) = IF RowOf(k) < args.rows THEN cols ELSE 0
                  /\ (RowOf(k) < args.rows /\ cols > 0) => Kind(k - 1) = "reset"
    /\ \A k \in CellStarts :
           LET r == RowOf(k)
               c == ColOf(k)
               g == Gradient(heatmap[r][c].val)
           IN  /\ r \in DOMAIN heatmap /\ c \in DOMAIN heatmap[r]
               /\ out[k][2] = IF GlyphAt(r, c) # " " THEN Darken(g) ELSE g

\* a completed overlay of two rows of two cells each, not all of one colour
EmissionOrderWitness ==
    /\ pc = "done"
    /\ CellsInLine(0) >= 2
    /\ CellsInLine(1) >= 2
    /\ Cardinality({out[k][2] : k \in CellStarts}) >= 3
====
